---- MODULE Spec2Model ----
(***************************************************************************)
(* Model of src/orbit.py: get_RVs, the radial-velocity pipeline            *)
(*   linspace -> mean anomaly -> Kepler solve -> radius -> true anomaly    *)
(*   -> half-period unwrap -> vr -> linspace -> periodic np.interp.        *)
(*                                                                         *)
(* Arithmetic.  Python floats are modelled as exact rationals <<n, d>>     *)
(* (d > 0, lowest terms); <<0, 0>> is NaN and <<1, 0>>, <<-1, 0>> are the  *)
(* infinities that numpy's array division yields for x/0.  Angles are      *)
(* measured in units of pi/Half radians, so pi is the rational Half.  The  *)
(* transcendental functions are evaluated on that angle grid: sin and cos  *)
(* by range reduction and a fixed-point Taylor polynomial (values in       *)
(* units of 1/Scale), arccos by inverting the cosine table.  Integer       *)
(* division follows Python 2, the language of the source ((NT-1)/2 is an   *)
(* int there).                                                             *)
(*                                                                         *)
(* sp.newton is the secant iteration of SciPy, outside the source: it is   *)
(* represented by what it hands back, the zero of kepler when it converges *)
(* and RuntimeError when it runs out of iterations.  np.argsort inside     *)
(* np.interp is not stable, so either order of equal keys can come out.    *)
(***************************************************************************)
EXTENDS Integers, Sequences, FiniteSets, TLC

\* ---------------------------------------------------------------- bounds
MaxNT    == 4      \* NT, points of the one-period grid, ranges over 2..MaxNT
MaxN     == 3      \* N, points of the output grid, ranges over 0..MaxN
MaxT     == 2      \* the period T ranges over 2..MaxT
MaxStart == 1      \* start ranges over -MaxStart..MaxStart
MaxSpan  == 4      \* end - start ranges over 0..MaxSpan

\* ------------------------------------------------------------ resolution
Deg180 == 180                       \* the 180. of w *= np.pi/180.
Half   == 2 * Deg180                \* pi, in angle units (half degrees)
Scale  == 10 * 10 * 10 * 10         \* sin and cos values are k/Scale
PiFx   == (355 * Scale) \div 113    \* pi radians, in units of 1/Scale

\* ------------------------------------------------------------- rationals
Abs(x) == IF x < 0 THEN -x ELSE x
Sign(x) == IF x < 0 THEN -1 ELSE IF x > 0 THEN 1 ELSE 0

RECURSIVE GCD(_, _)
GCD(a, b) == IF b = 0 THEN a ELSE GCD(b, a % b)

NaN == <<0, 0>>
IsFinite(x) == x[2] # 0
IsNaN(x) == x = NaN

Norm(n, d) ==
    IF d = 0 THEN <<Sign(n), 0>>
    ELSE LET g == GCD(Abs(n), Abs(d))
             s == Sign(d)
         IN  <<s * (n \div g), s * (d \div g)>>

Rat(n) == <<n, 1>>

\* x + y, x - y, x * y, x / y of doubles, without rounding; NaN and the
\* infinities follow the IEEE rules (NaN propagates, inf - inf is NaN).
RAdd(x, y) ==
    IF ~IsFinite(x) \/ ~IsFinite(y) THEN
        IF IsNaN(x) \/ IsNaN(y) \/ (~IsFinite(x) /\ ~IsFinite(y) /\ x # y)
        THEN NaN ELSE IF IsFinite(x) THEN y ELSE x
    ELSE LET g == GCD(x[2], y[2])
             l == (x[2] \div g) * y[2]
         IN  Norm(x[1] * (l \div x[2]) + y[1] * (l \div y[2]), l)

RNeg(x) == <<-x[1], x[2]>>
RSub(x, y) == RAdd(x, RNeg(y))

RMul(x, y) ==
    IF ~IsFinite(x) \/ ~IsFinite(y) THEN
        IF IsNaN(x) \/ IsNaN(y) \/ x[1] = 0 \/ y[1] = 0
        THEN NaN ELSE <<Sign(x[1]) * Sign(y[1]), 0>>
    ELSE LET g1 == GCD(Abs(x[1]), y[2])
             g2 == GCD(Abs(y[1]), x[2])
         IN  Norm((x[1] \div g1) * (y[1] \div g2), (x[2] \div g2) * (y[2] \div g1))

RDiv(x, y) ==
    IF ~IsFinite(x) \/ ~IsFinite(y) THEN
        IF IsFinite(x) /\ ~IsNaN(y) THEN Rat(0)
        ELSE IF IsFinite(y) /\ ~IsNaN(x) /\ y[1] # 0
             THEN <<Sign(x[1]) * Sign(y[1]), 0>> ELSE NaN
    ELSE IF y[1] = 0 THEN <<Sign(x[1]), 0>>
    ELSE RMul(x, Norm(y[2], y[1]))

\* x < y and x <= y; false when either side is NaN, as for doubles.
RLt(x, y) ==
    /\ ~IsNaN(x) /\ ~IsNaN(y)
    /\ IF IsFinite(x) /\ IsFinite(y) THEN RSub(x, y)[1] < 0
       ELSE IF ~IsFinite(x) /\ ~IsFinite(y) THEN x[1] < y[1]
       ELSE IF IsFinite(x) THEN y[1] > 0 ELSE x[1] < 0
RLe(x, y) == ~IsNaN(x) /\ ~IsNaN(y) /\ (x = y \/ RLt(x, y))

\* Python's x % p for p > 0: the result lies in [0, p).
RMod(x, p) ==
    IF ~IsFinite(x) \/ ~IsFinite(p) \/ p[1] = 0 THEN NaN
    ELSE LET q == RDiv(x, p)
             fl == q[1] \div q[2]
         IN  RSub(x, RMul(Rat(fl), p))

\* ------------------------------------------------------------ sin and cos
\* Taylor polynomials on [0, pi/4]; x is in units of 1/Scale radians, the
\* powers are carried in units of 1/Scale^2 and the result is cut to 1/Scale.
SinPoly(x) ==
    LET X2 == x * x
        q  == X2 \div Scale
        X3 == ((X2 \div 1000) * x) \div 10
        X5 == (X3 \div Scale) * q
        X7 == (X5 \div Scale) * q
    IN  (x * Scale - X3 \div 6 + X5 \div 120 - X7 \div 5040) \div Scale

CosPoly(x) ==
    LET X2 == x * x
        q  == X2 \div Scale
        X4 == q * q
        X6 == (X4 \div Scale) * q
    IN  (Scale * Scale - X2 \div 2 + X4 \div 24 - X6 \div 720) \div Scale

Radians(k) == (2 * k * PiFx + Half) \div (2 * Half)

\* sin on the first quadrant, k in 0..Half/2 angle units.
SinQ(k) ==
    IF 4 * k <= Half THEN SinPoly(Radians(k))
    ELSE CosPoly(Radians(Half \div 2 - k))

SinTab == [k \in 0..(Half \div 2) |-> SinQ(k)]

\* sin and cos of k angle units, any integer k, in units of 1/Scale.
Sin(k) ==
    LET m == k % (2 * Half)
    IN  IF m <= Half \div 2 THEN SinTab[m]
        ELSE IF m <= Half THEN SinTab[Half - m]
        ELSE IF m <= Half + Half \div 2 THEN -SinTab[m - Half]
        ELSE -SinTab[2 * Half - m]

Cos(k) == Sin(k + Half \div 2)

Pi == Rat(Half)                     \* np.pi, in angle units

\* An angle in angle units, as radians.
ToRadians(x) == RMul(x, Norm(PiFx, Scale * Half))

\* np.sin and np.cos of an angle x (a rational number of angle units, cut to
\* the grid); NaN in, NaN out.
SinR(x) == IF ~IsFinite(x) THEN NaN ELSE Norm(Sin(x[1] \div x[2]), Scale)
CosR(x) == IF ~IsFinite(x) THEN NaN ELSE Norm(Cos(x[1] \div x[2]), Scale)

\* The least k in lo..hi with cos(k) <= x, cos being decreasing on [0, pi].
RECURSIVE ArccosSearch(_, _, _)
ArccosSearch(x, lo, hi) ==
    IF lo >= hi THEN lo
    ELSE LET mid == (lo + hi) \div 2
         IN  IF RLe(Norm(Cos(mid), Scale), x)
             THEN ArccosSearch(x, lo, mid)
             ELSE ArccosSearch(x, mid + 1, hi)

\* np.arccos: the principal value in [0, pi], NaN outside [-1, 1].
Arccos(x) ==
    IF ~IsFinite(x) \/ RLt(Rat(1), x) \/ RLt(x, Rat(-1)) THEN NaN
    ELSE Rat(ArccosSearch(x, 0, Half))

\* ------------------------------------------------------------ the source
\* def vr(VZ, K, w, f, e), Eq. 65.
vr(VZ_, K_, w_, f_, e_) ==
    LET wr == RMul(w_, RDiv(Pi, Rat(Deg180)))
    IN  RAdd(VZ_, RMul(K_, RAdd(CosR(RAdd(wr, f_)), RMul(e_, CosR(wr)))))

\* def kepler(E, e, M), Eq. 41; E and M are held in angle units, the value
\* is in radians.
kepler(E_, e_, M_) ==
    RSub(RSub(ToRadians(E_), RMul(e_, SinR(E_))), ToRadians(M_))

\* Linspace with endpoint = False: num steps of (stop - start)/num.
LinspaceOpen(a_, b_, num) ==
    LET step == RDiv(RSub(b_, a_), Rat(num))
    IN  [i \in 1..num |-> RAdd(RMul(Rat(i - 1), step), a_)]

\* np.linspace(start, stop, num), endpoint included.
Linspace(a_, b_, num) ==
    IF num = 1 THEN <<a_>>
    ELSE LET step == RDiv(RSub(b_, a_), Rat(num - 1))
         IN  [i \in 1..num |->
                 IF i = num THEN b_ ELSE RAdd(RMul(Rat(i - 1), step), a_)]

\* The last grid angle in lo..hi at which kepler(., e, Mk) is <= 0, kepler
\* being increasing in E for 0 <= e < 1.
RECURSIVE Bracket(_, _, _, _)
Bracket(e_, Mk, lo, hi) ==
    IF lo >= hi THEN lo
    ELSE LET mid == (lo + hi + 1) \div 2
         IN  IF RLe(kepler(Rat(mid), e_, Mk), Rat(0))
             THEN Bracket(e_, Mk, mid, hi)
             ELSE Bracket(e_, Mk, lo, mid - 1)

\* sp.newton(func = kepler, x0 = Mk, args = (e, Mk)) when it converges: the
\* zero of kepler(., e, Mk), to the resolution of the angle grid (of the two
\* grid angles that bracket the zero, the one with the smaller residual).
newton(e_, Mk) ==
    LET lo == Bracket(e_, Mk, 0, 2 * Half)
    IN  IF lo < 2 * Half
           /\ RLt(kepler(Rat(lo + 1), e_, Mk), RNeg(kepler(Rat(lo), e_, Mk)))
        THEN Rat(lo + 1) ELSE Rat(lo)

\* The value sp.newton reports when it gives up after its iteration budget
\* ("Failed to converge after %d iterations, value is %s"): its last
\* iterate, some angle that is no zero of kepler(., e, Mk).
LastIterates(e_, Mk) ==
    {p \in {Rat(0), Pi} : p # newton(e_, Mk)}

\* np.arccos(((a*(1.-e**2)/r)-1.0)/e) for one sample: the true anomaly on the
\* principal branch [0, pi].
PrincipalAnomaly(a_, e_, r_) ==
    Arccos(RDiv(RSub(RDiv(RMul(a_, RSub(Rat(1), RMul(e_, e_))), r_), Rat(1)),
                e_))

\* The start x0 = Mk is already a zero of kepler(., e, Mk) (e = 0, or Mk a
\* multiple of pi): the secant iteration of sp.newton then stops after two
\* steps and cannot run out of iterations.
StartsOnZero(e_, Mk) == kepler(Mk, e_, Mk) = Rat(0)

\* f[(NT-1)/2:], the positions (1-based) the slice selects; / is the integer
\* division of Python 2.
SecondHalf(NT_) == {i \in 1..NT_ : i - 1 >= (NT_ - 1) \div 2}

\* np.argsort(xp): the permutations that put xp in non-decreasing order (the
\* default sort is not stable, equal keys may come out in either order).
Argsorts(xp) ==
    LET n == Len(xp)
    IN  {p \in [1..n -> 1..n] :
            /\ \A i, j \in 1..n : i # j => p[i] # p[j]
            /\ \A i \in 1..(n - 1) : RLe(xp[p[i]], xp[p[i + 1]])}

\* compiled_interp without the linear term: the sample at or before x.
CompiledInterpStep(x, xp, fp) ==
    LET n == Len(xp)
    IN  IF RLt(xp[n], x) THEN fp[n]
        ELSE IF RLt(x, xp[1]) THEN fp[1]
        ELSE fp[CHOOSE i \in 1..n :
                    /\ RLe(xp[i], x)
                    /\ \A h \in (i + 1)..n : RLt(x, xp[h])]

\* compiled_interp(x, xp, fp, left = None, right = None) at one point x.
CompiledInterp(x, xp, fp) ==
    LET n == Len(xp)
    IN  IF RLt(xp[n], x) THEN fp[n]
        ELSE IF RLt(x, xp[1]) THEN fp[1]
        ELSE LET j == CHOOSE i \in 1..n :
                         /\ RLe(xp[i], x)
                         /\ \A h \in (i + 1)..n : RLt(x, xp[h])
             IN  IF j = n \/ xp[j] = x THEN fp[j]
                 ELSE LET slope == RDiv(RSub(fp[j + 1], fp[j]),
                                        RSub(xp[j + 1], xp[j]))
                      IN  RAdd(RMul(slope, RSub(x, xp[j])), fp[j])

\* np.interp that leaves the targets x as they are (no x % period).
InterpNoWrap(x, xp, fp, period, p) ==
    LET n   == Len(xp)
        xpm == [i \in 1..n |-> RMod(xp[i], period)]
        xs  == [i \in 1..n |-> xpm[p[i]]]
        fs  == [i \in 1..n |-> fp[p[i]]]
        xq  == <<RSub(xs[n], period)>> \o xs \o <<RAdd(xs[1], period)>>
        fq  == <<fs[n]>> \o fs \o <<fs[1]>>
    IN  [i \in 1..Len(x) |-> CompiledInterp(x[i], xq, fq)]

\* np.interp that sorts xp % period but leaves fp in its original order.
InterpKeysOnly(x, xp, fp, period, p) ==
    LET n   == Len(xp)
        xm  == [i \in 1..Len(x) |-> RMod(x[i], period)]
        xpm == [i \in 1..n |-> RMod(xp[i], period)]
        xs  == [i \in 1..n |-> xpm[p[i]]]
        xq  == <<RSub(xs[n], period)>> \o xs \o <<RAdd(xs[1], period)>>
        fq  == <<fp[n]>> \o fp \o <<fp[1]>>
    IN  [i \in 1..Len(x) |-> CompiledInterp(xm[i], xq, fq)]

\* np.interp(x, xp, fp, period = period), given the argsort p of xp % period.
Interp(x, xp, fp, period, p) ==
    LET n   == Len(xp)
        xm  == [i \in 1..Len(x) |-> RMod(x[i], period)]
        xpm == [i \in 1..n |-> RMod(xp[i], period)]
        xs  == [i \in 1..n |-> xpm[p[i]]]
        fs  == [i \in 1..n |-> fp[p[i]]]
        xq  == <<RSub(xs[n], period)>> \o xs \o <<RAdd(xs[1], period)>>
        fq  == <<fs[n]>> \o fs \o <<fs[1]>>
    IN  [i \in 1..Len(x) |-> CompiledInterp(xm[i], xq, fq)]

\* ----------------------------------------------------------------- state
VARIABLES
    K, T, t0, w, e, a, VZ, start, end, NT, N,   \* the arguments of get_RVs
    t, M, E, r, f, RV, ts, RVs,                 \* its locals
    pc,                                         \* the line it is at
    err,                                        \* the exception it raised
    result                                      \* what it returned

args == <<K, T, t0, w, e, a, VZ, start, end, NT, N>>
vars == <<args, t, M, E, r, f, RV, ts, RVs, pc, err, result>>

NoError == [type |-> "none", value |-> NaN]
NoResult == [returned |-> FALSE, times |-> <<>>, RVs |-> <<>>]

Eccentricities == {Rat(0), <<1, 2>>, <<4, 5>>}
Epochs == {Rat(0), <<1, 2>>, Rat(1)}
Periapses == {Rat(52)}

Init ==
    /\ K = Rat(1) /\ a = Rat(2) /\ VZ = Rat(-3)
    /\ w \in Periapses
    /\ e \in Eccentricities
    /\ T \in {Rat(x) : x \in 2..MaxT}
    /\ t0 \in Epochs
    /\ start \in {Rat(x) : x \in (-MaxStart)..MaxStart}
    /\ \E span \in 0..MaxSpan : end = RAdd(start, Rat(span))
    /\ NT \in 2..MaxNT
    /\ N \in 0..MaxN
    /\ t = <<>> /\ M = <<>> /\ E = <<>> /\ r = <<>> /\ f = <<>>
    /\ RV = <<>> /\ ts = <<>> /\ RVs = <<>>
    /\ pc = "t"
    /\ err = NoError
    /\ result = NoResult

\* t = np.linspace(t0, t0+T, NT)
OnePeriodGrid ==
    /\ pc = "t"
    /\ t' = Linspace(t0, RAdd(t0, T), NT)
    /\ pc' = "M"
    /\ UNCHANGED <<args, M, E, r, f, RV, ts, RVs, err, result>>

\* M = 2*np.pi/T*(t-t0)
MeanAnomaly ==
    /\ pc = "M"
    /\ M' = [i \in 1..Len(t) |->
                RMul(RDiv(RMul(Rat(2), Pi), T), RSub(t[i], t0))]
    /\ pc' = "E"
    /\ UNCHANGED <<args, t, E, r, f, RV, ts, RVs, err, result>>

\* E = np.array([sp.newton(...) for Mk in M]): one pass of the comprehension
\* in which the solver converges; after the last one the array is built.
SolveSample ==
    /\ pc = "E"
    /\ Len(E) < Len(M)
    /\ E' = Append(E, newton(e, M[Len(E) + 1]))
    /\ UNCHANGED <<args, t, M, r, f, RV, ts, RVs, pc, err, result>>

\* A solver that, out of iterations, hands back its last iterate instead of
\* raising: the comprehension goes on with an unconverged sample.
SolveGivesUpSilently ==
    /\ pc = "E"
    /\ Len(E) < Len(M)
    /\ ~StartsOnZero(e, M[Len(E) + 1])
    /\ \E p \in LastIterates(e, M[Len(E) + 1]) : E' = Append(E, p)
    /\ UNCHANGED <<args, t, M, r, f, RV, ts, RVs, pc, err, result>>

\* One pass in which sp.newton exhausts its iterations: it raises
\* RuntimeError, which get_RVs does not catch.  Which samples exhaust the
\* budget depends on the floating-point iteration; here any sample whose
\* start is not already the zero may.
SolveFails ==
    /\ pc = "E"
    /\ Len(E) < Len(M)
    /\ ~StartsOnZero(e, M[Len(E) + 1])
    /\ \E p \in LastIterates(e, M[Len(E) + 1]) :
          err' = [type |-> "RuntimeError", value |-> p]
    /\ pc' = "raised"
    /\ UNCHANGED <<args, t, M, E, r, f, RV, ts, RVs, result>>

\* r = a*(1.-e*np.cos(E))
Radius ==
    /\ pc = "E"
    /\ Len(E) = Len(M)
    /\ r' = [i \in 1..Len(E) |->
                RMul(a, RSub(Rat(1), RMul(e, CosR(E[i]))))]
    /\ pc' = "f"
    /\ UNCHANGED <<args, t, M, E, f, RV, ts, RVs, err, result>>

\* f = np.arccos(((a*(1.-e**2)/r)-1.0)/e)
TrueAnomaly ==
    /\ pc = "f"
    /\ f' = [i \in 1..Len(r) |-> PrincipalAnomaly(a, e, r[i])]
    /\ pc' = "unwrap"
    /\ UNCHANGED <<args, t, M, E, r, RV, ts, RVs, err, result>>

\* f[(NT-1)/2:] += 2*(np.pi-f[(NT-1)/2:])
Unwrap ==
    /\ pc = "unwrap"
    /\ f' = [i \in 1..Len(f) |->
                IF i \in SecondHalf(NT)
                THEN RAdd(f[i], RMul(Rat(2), RSub(Pi, f[i])))
                ELSE f[i]]
    /\ pc' = "RV"
    /\ UNCHANGED <<args, t, M, E, r, RV, ts, RVs, err, result>>

\* RV = np.array([vr(VZ, K, w, fk, e) for fk in f])
RadialVelocities ==
    /\ pc = "RV"
    /\ RV' = [i \in 1..Len(f) |-> vr(VZ, K, w, f[i], e)]
    /\ pc' = "ts"
    /\ UNCHANGED <<args, t, M, E, r, f, ts, RVs, err, result>>

\* ts = np.linspace(start, end, N)
OutputGrid ==
    /\ pc = "ts"
    /\ ts' = Linspace(start, end, N)
    /\ pc' = "RVs"
    /\ UNCHANGED <<args, t, M, E, r, f, RV, RVs, err, result>>

\* RVs = np.interp(ts, t, RV, period = T)
Resample ==
    /\ pc = "RVs"
    /\ \E p \in Argsorts([i \in 1..Len(t) |-> RMod(t[i], T)]) :
          RVs' = Interp(ts, t, RV, T, p)
    /\ pc' = "return"
    /\ UNCHANGED <<args, t, M, E, r, f, RV, ts, err, result>>

\* return ts, RVs
Return ==
    /\ pc = "return"
    /\ result' = [returned |-> TRUE, times |-> ts, RVs |-> RVs]
    /\ pc' = "done"
    /\ UNCHANGED <<args, t, M, E, r, f, RV, ts, RVs, err>>

Next ==
    \/ OnePeriodGrid
    \/ MeanAnomaly
    \/ SolveSample
    \/ SolveFails
    \/ Radius
    \/ TrueAnomaly
    \/ Unwrap
    \/ RadialVelocities
    \/ OutputGrid
    \/ Resample
    \/ Return

Spec == Init /\ [][Next]_vars

\* ---------------------------------------------------------------- claims
TwoPi == RMul(Rat(2), Pi)
Computed == {"RV", "ts", "RVs", "return", "done"}   \* f is unwrapped
Returned == pc = "done" /\ result.returned

\* --- C2 -------------------------------------------------------------
\* C2: the resampled curve has period T: two target times of one call that
\* differ by an integer multiple of T get the same RV (an undefined sample,
\* NaN, comes back as NaN at both).
Congruent(x, y) == RMod(RSub(y, x), T) = Rat(0)

C2_Periodicity ==
    Returned =>
        \A i, j \in 1..Len(result.times) :
            Congruent(result.times[i], result.times[j])
                => result.RVs[i] = result.RVs[j]

\* Two distinct congruent targets, on a curve that is defined and not flat.
C2_Witness ==
    /\ Returned
    /\ \E i, j, h \in 1..Len(result.times) :
          /\ result.times[i] # result.times[j]
          /\ Congruent(result.times[i], result.times[j])
          /\ IsFinite(result.RVs[i])
          /\ IsFinite(result.RVs[h])
          /\ result.RVs[h] # result.RVs[i]

\* --- C3 -------------------------------------------------------------
\* The linear interpolation of the one-period reference (t, RV) at x reduced
\* modulo T into [t0, t0+T): between the two samples that bracket it.
BracketInterp(x) ==
    LET tau == RAdd(t0, RMod(RSub(x, t0), T))
        j == CHOOSE i \in 1..(NT - 1) : RLe(t[i], tau) /\ RLt(tau, t[i + 1])
    IN  RAdd(RV[j],
             RDiv(RMul(RSub(tau, t[j]), RSub(RV[j + 1], RV[j])),
                  RSub(t[j + 1], t[j])))

\* C3: every returned RVs[i] is the linear interpolation between the two
\* reference samples that bracket ts[i] reduced modulo T into [t0, t0+T],
\* for targets before t0, inside the span and after t0+T alike.
C3_BracketInterpolation ==
    Returned =>
        \A i \in 1..Len(result.times) :
            result.RVs[i] = BracketInterp(result.times[i])

\* A target before t0 and one after t0+T, each strictly between two
\* reference samples and with an RV that is no reference sample's.
C3_Witness ==
    /\ Returned
    /\ \E i, j \in 1..Len(result.times) :
          /\ RLt(result.times[i], t0)
          /\ RLt(RAdd(t0, T), result.times[j])
          /\ \A h \in 1..NT :
                /\ IsFinite(RV[h])
                /\ result.RVs[i] # RV[h]
                /\ result.RVs[j] # RV[h]

\* --- C4 -------------------------------------------------------------
\* C4: get_RVs returns two sequences of N elements each; the times are evenly
\* spaced, the first is start and, for N >= 2, the last is end; for N = 1
\* the one time is start.
C4_OutputGrid ==
    Returned =>
        /\ Len(result.times) = N
        /\ Len(result.RVs) = N
        /\ N >= 1 => result.times[1] = start
        /\ N >= 2 => result.times[N] = end
        /\ \A i \in 1..(N - 2) :
              RSub(result.times[i + 1], result.times[i])
                  = RSub(result.times[i + 2], result.times[i + 1])

C4_Witness ==
    /\ Returned
    /\ N >= 3
    /\ start # end
    /\ Len(result.times) = N

\* --- C5 -------------------------------------------------------------
InvalidParameter ==
    \/ RLt(e, Rat(0)) \/ RLe(Rat(1), e)
    \/ NT < 2
    \/ N < 1
    \/ RLe(T, Rat(0))

\* C5: with an invalid parameter (e outside [0, 1), NT < 2, N < 1, T <= 0)
\* get_RVs reports InvalidParameter at once: it runs no step of the pipeline
\* and returns no result.
C5_RejectsInvalid ==
    InvalidParameter =>
        /\ pc \in {"t", "raised"}
        /\ pc = "raised" => err.type = "InvalidParameter"
        /\ t = <<>> /\ E = <<>> /\ RV = <<>>
        /\ ~result.returned

\* --- C6 -------------------------------------------------------------
Converged(i) == E[i] = newton(e, M[i])

C7_CircularOrbit ==
    (e = Rat(0) /\ pc \in Computed) =>
        /\ \A i \in 1..NT : f[i] = M[i]
        /\ \A i \in 1..Len(RV) : IsFinite(RV[i])

\* --- C8 -------------------------------------------------------------
\* C8: after the unwrap, for 0 < e < 1 and every NT >= 2, the true anomalies
\* are non-decreasing in the sample index, the first is 0 and the last 2 pi.
C8_MonotonicUnwrap ==
    (pc \in Computed /\ RLt(Rat(0), e) /\ RLt(e, Rat(1))) =>
        /\ \A i \in 1..(NT - 1) : RLe(f[i], f[i + 1])
        /\ f[1] = Rat(0)
        /\ f[NT] = TwoPi

\* --- C9 -------------------------------------------------------------
RoundTrip == start = t0 /\ end = RAdd(t0, T) /\ N = NT

\* C9: resampling the one-period grid onto itself (start = t0, end = t0+T,
\* N = NT) returns the one-period RV sequence, index by index, the two end
\* samples included.
C9_RoundTrip ==
    (Returned /\ RoundTrip) => result.RVs = RV

\* A round trip of a defined, non-flat curve whose grid does not start at a
\* multiple of the period.
C9_Witness ==
    /\ Returned
    /\ RoundTrip
    /\ NT >= 3
    /\ RMod(t0, T) # Rat(0)
    /\ \A i \in 1..NT : IsFinite(RV[i])
    /\ RV[1] # RV[2]

\* --- C10 ------------------------------------------------------------
\* Sample i (1-based) was reflected when the unwrapped f[i] is 2 pi minus its
\* principal value.
Principal(i) == PrincipalAnomaly(a, e, r[i])

\* C10: for every NT >= 2 the unwrap reflects exactly the inbound samples:
\* sample i is replaced by 2 pi - f iff its mean anomaly is at or past pi
\* (2*i >= NT-1, i counted from 0); no sample with a mean anomaly below pi
\* is changed.
C10_SplitAtHalfPeriod ==
    pc \in Computed =>
        \A i \in 1..NT :
            /\ 2 * (i - 1) >= NT - 1 <=> RLe(Pi, M[i])
            /\ RLe(Pi, M[i]) => f[i] = RSub(TwoPi, Principal(i))
            /\ RLt(M[i], Pi) => f[i] = Principal(i)

====
